---------------------------- MODULE Spec2Model ----------------------------
(***************************************************************************)
(* context_portal_mcp/core/openai_compat.py                                *)
(*                                                                         *)
(* patch_schema_for_openai  rewrites a JSON schema in place so that every  *)
(* object-typed node it visits forbids additional properties.              *)
(* patch_mcp_server_for_openai  rebinds a server's list_tools to a wrapper *)
(* that runs the rewriter over every tool's inputSchema.                   *)
(*                                                                         *)
(* Python dicts are mutable objects with identity, so a schema is a heap:  *)
(* a sequence of dict nodes, and a value that is a dict is a reference     *)
(* into the heap.  Two references to the same index are the same object.   *)
(***************************************************************************)
EXTENDS Integers, Sequences, FiniteSets, TLC

\* Size of the schemas drawn as inputs: dict references, list and properties
\* elements, and boolean additionalProperties entries, summed over the schema.
MaxSize == 2
\* How many times patch_mcp_server_for_openai is called on the server.
MaxInstalls == 2
\* How many list_tools invocations are made, and may be in flight together.
NumCallers == 2

(***************************************************************************)
(* JSON values                                                             *)
(***************************************************************************)
\* a key that is not in the dict
Absent == [kind |-> "absent", ref |-> 0, names |-> <<>>, elems |-> <<>>]
\* a string, a number or None: neither a dict nor a list
Prim == [kind |-> "prim", ref |-> 0, names |-> <<>>, elems |-> <<>>]
True == [kind |-> "true", ref |-> 0, names |-> <<>>, elems |-> <<>>]
False == [kind |-> "false", ref |-> 0, names |-> <<>>, elems |-> <<>>]
\* a reference to the dict node n of the heap
Dict(n) == [kind |-> "dict", ref |-> n, names |-> <<>>, elems |-> <<>>]
\* a list; each element is a dict reference, or 0 for an element that is no dict
List(s) == [kind |-> "list", ref |-> 0, names |-> <<>>, elems |-> s]
\* a properties mapping: names[i] maps to the element elems[i]
Map(ns, s) == [kind |-> "map", ref |-> 0, names |-> ns, elems |-> s]

Elem(e) == IF e = 0 THEN Prim ELSE Dict(e)

NoType == "<no type>"
Types == {"object", "string", NoType}
LinkKeys == <<"additionalProperties", "items", "anyOf", "oneOf", "allOf", "properties">>
PropNames == <<"a", "b", "c", "d", "e">>

MkNode(t, l) ==
    [type |-> t, additionalProperties |-> l[1], items |-> l[2], anyOf |-> l[3],
     oneOf |-> l[4], allOf |-> l[5], properties |-> l[6]]

EmptyDict == MkNode(NoType, <<Absent, Absent, Absent, Absent, Absent, Absent>>)
Obj == [EmptyDict EXCEPT !.type = "object"]
Str == [EmptyDict EXCEPT !.type = "string"]

(***************************************************************************)
(* The schemas drawn as inputs: every acyclic heap of size at most MaxSize *)
(* in which each node but the first is referenced by an earlier one.       *)
(***************************************************************************)
RECURSIVE SortedSeq(_)
SortedSeq(S) ==
    IF S = {} THEN <<>>
    ELSE LET m == CHOOSE x \in S : \A y \in S : x <= y
         IN <<m>> \o SortedSeq(S \ {m})

IncSeqs(T, b) ==
    {SortedSeq(S) : S \in {X \in SUBSET T : X # {} /\ Cardinality(X) <= b
                                            /\ Cardinality(X) <= Len(PropNames)}}

SlotVals(key, T, b) ==
    IF b = 0 THEN {}
    ELSE CASE key = "additionalProperties" -> {True, False} \cup {Dict(j) : j \in T}
           [] key = "items" -> {Dict(j) : j \in T} \cup {List(s) : s \in IncSeqs(T, b)}
           [] key = "properties" -> {Map(SubSeq(PropNames, 1, Len(s)), s) : s \in IncSeqs(T, b)}
           [] OTHER -> {List(s) : s \in IncSeqs(T, b)}

Cost(v) ==
    CASE v.kind = "absent" -> 0
      [] v.kind \in {"list", "map"} -> Len(v.elems)
      [] OTHER -> 1

ValRefs(v) ==
    CASE v.kind = "dict" -> {v.ref}
      [] v.kind \in {"list", "map"} -> {v.elems[i] : i \in 1..Len(v.elems)} \ {0}
      [] OTHER -> {}

VARIABLES
    heap,       \* the dict objects: heap[n] is the dict with identity n
    arg,        \* the value passed to the last call of patch_schema_for_openai
    ret,        \* the value that call returned
    calls,      \* how many times the function has been applied
    heap0,      \* the heap when the function was first called
    heap1,      \* the heap when the first call returned
    server,     \* the server object: its kind and what its list_tools is bound to
    descs,      \* the tool descriptor objects
    results,    \* the result objects the original list_tools returns
    installs,   \* what each call of patch_mcp_server_for_openai did
    call        \* the list_tools invocations, one per caller

patchVars == <<arg, ret, calls, heap0, heap1>>
serverVars == <<server, descs, results, installs, call>>
vars == <<heap, patchVars, serverVars>>

(***************************************************************************)
(* patch_schema_for_openai                                                 *)
(***************************************************************************)
RECURSIVE patch_schema_for_openai(_, _)
RECURSIVE PatchEach(_, _, _)

\* a variant that forgets the test of the type
ForceFalseAnyType(h, n) == [h EXCEPT ![n].additionalProperties = False]

\* lines 25-26
ForceFalse(h, n) ==
    IF h[n].type = "object" THEN [h EXCEPT ![n].additionalProperties = False] ELSE h

\* the body of the for loops of lines 31-32 and 36-37
PatchEach(h, s, i) ==
    IF i > Len(s) THEN h
    ELSE PatchEach(patch_schema_for_openai(h, Elem(s[i])).heap, s, i + 1)

\* a variant that forgets allOf
PatchKeyNoAllOf(h, n, key) ==
    IF key # "allOf" /\ h[n][key].kind = "list" THEN PatchEach(h, h[n][key].elems, 1) ELSE h

\* lines 30-32, for one key
PatchKey(h, n, key) ==
    IF h[n][key].kind = "list" THEN PatchEach(h, h[n][key].elems, 1) ELSE h

\* lines 35-37
PatchProperties(h, n) ==
    IF h[n].properties.kind = "map" THEN PatchEach(h, h[n].properties.elems, 1) ELSE h

\* lines 40-41
PatchItems(h, n) ==
    IF h[n].items.kind # "absent" THEN patch_schema_for_openai(h, h[n].items).heap ELSE h

\* lines 44-45
PatchAdditional(h, n) ==
    IF h[n].additionalProperties.kind = "dict"
    THEN patch_schema_for_openai(h, h[n].additionalProperties).heap
    ELSE h

\* a variant that returns as soon as it has forced the entry of an object node
patch_early_return(h, v) ==
    IF v.kind # "dict" THEN [heap |-> h, ret |-> v]
    ELSE LET n == v.ref
             h2 == PatchKey(PatchKey(PatchKey(h, n, "anyOf"), n, "oneOf"), n, "allOf")
             h5 == PatchAdditional(PatchItems(PatchProperties(h2, n), n), n)
         IN IF h[n].type = "object" /\ h[n].additionalProperties # False
            THEN [heap |-> ForceFalse(h, n), ret |-> v]
            ELSE [heap |-> h5, ret |-> v]

\* a variant that visits a schema-valued additionalProperties before it
\* overwrites the entry
patch_visit_additional_first(h, v) ==
    IF v.kind # "dict" THEN [heap |-> h, ret |-> v]
    ELSE LET n == v.ref
             h0 == PatchAdditional(h, n)
             h1 == ForceFalse(h0, n)
             h2 == PatchKey(PatchKey(PatchKey(h1, n, "anyOf"), n, "oneOf"), n, "allOf")
             h4 == PatchItems(PatchProperties(h2, n), n)
         IN [heap |-> h4, ret |-> v]

\* lines 9-47: the call on value v in heap h; the heap it leaves and the value
\* it returns
patch_schema_for_openai(h, v) ==
    IF v.kind # "dict" THEN [heap |-> h, ret |-> v]
    ELSE LET n == v.ref
             h1 == ForceFalse(h, n)
             h2 == PatchKey(PatchKey(PatchKey(h1, n, "anyOf"), n, "oneOf"), n, "allOf")
             h3 == PatchProperties(h2, n)
             h4 == PatchItems(h3, n)
             h5 == PatchAdditional(h4, n)
         IN [heap |-> h5, ret |-> v]

(***************************************************************************)
(* patch_mcp_server_for_openai and the wrapper it installs                 *)
(*                                                                         *)
(* server.list_tools = k says that list_tools is bound to the k-th wrapper, *)
(* whose original_list_tools is the binding k - 1; 0 is the server's own   *)
(* operation.  The kind of the server says how the object answers          *)
(* attribute access.                                                       *)
(***************************************************************************)
ServerKinds ==
    {"plain",          \* has list_tools, and it can be rebound
     "no_list_tools",  \* hasattr(server, 'list_tools') is false
     "get_raises",     \* reading list_tools raises something else than AttributeError
     "set_raises"}     \* has list_tools, and assigning to it raises

\* a variant whose last line returns True
patch_mcp_server_returns_true(srv) ==
    IF srv.kind = "plain"
    THEN [server |-> [srv EXCEPT !.list_tools = @ + 1], ret |-> TRUE, raised |-> FALSE]
    ELSE [server |-> srv, ret |-> (srv.kind = "no_list_tools"), raised |-> FALSE]

\* lines 50-87: the server the call leaves, the value it returns, and whether
\* it raised
patch_mcp_server_for_openai(srv) ==
    CASE srv.kind = "no_list_tools" ->          \* line 61 is false: line 87
            [server |-> srv, ret |-> FALSE, raised |-> FALSE]
      [] srv.kind = "get_raises" ->             \* line 61 raises: lines 83-85
            [server |-> srv, ret |-> FALSE, raised |-> FALSE]
      [] srv.kind = "set_raises" ->             \* line 79 raises: lines 83-85
            [server |-> srv, ret |-> FALSE, raised |-> FALSE]
      [] OTHER ->                               \* lines 62-81
            [server |-> [srv EXCEPT !.list_tools = @ + 1], ret |-> TRUE, raised |-> FALSE]

\* line 72: the truth value of tool.inputSchema (Prim stands for None here)
Truthy(h, v) ==
    CASE v.kind = "dict" -> h[v.ref] # EmptyDict
      [] v.kind = "list" -> v.elems # <<>>
      [] OTHER -> FALSE

RECURSIVE PatchTools(_, _, _, _)

\* a variant that leaves the loop after the first tool it patched
PatchToolsFirstOnly(h, ds, ts, i) ==
    IF i > Len(ts) THEN [heap |-> h, raised |-> FALSE]
    ELSE LET sch == ds[ts[i]].inputSchema
         IN IF sch.kind # "absent" /\ Truthy(h, sch)
            THEN [heap |-> patch_schema_for_openai(h, sch).heap,
                  raised |-> ~ds[ts[i]].has_name]
            ELSE PatchTools(h, ds, ts, i + 1)

\* lines 71-74, from the i-th tool on: the heap the loop leaves, and whether
\* reading tool.name raised
PatchTools(h, ds, ts, i) ==
    IF i > Len(ts) THEN [heap |-> h, raised |-> FALSE]
    ELSE LET sch == ds[ts[i]].inputSchema
         IN IF sch.kind # "absent" /\ Truthy(h, sch)
            THEN LET h2 == patch_schema_for_openai(h, sch).heap
                 IN IF ds[ts[i]].has_name
                    THEN PatchTools(h2, ds, ts, i + 1)
                    ELSE [heap |-> h2, raised |-> TRUE]
            ELSE PatchTools(h, ds, ts, i + 1)

RECURSIVE KeepWithSchema(_, _, _)
KeepWithSchema(h, ds, ts) ==
    IF ts = <<>> THEN <<>>
    ELSE (IF ds[Head(ts)].inputSchema.kind # "absent" /\ Truthy(h, ds[Head(ts)].inputSchema)
          THEN <<Head(ts)>> ELSE <<>>) \o KeepWithSchema(h, ds, Tail(ts))

\* a variant that also drops the tools without a schema from the result
patched_list_tools_drops_tools(o) ==
    IF o.error # "none" THEN o
    ELSE IF ~o.results[o.ret].has_tools THEN o
    ELSE LET p == PatchTools(o.heap, o.descs, o.results[o.ret].tools, 1)
         IN [o EXCEPT !.heap = p.heap,
                      !.results[o.ret].tools = KeepWithSchema(o.heap, o.descs, @),
                      !.error = IF p.raised THEN "AttributeError" ELSE "none"]

\* lines 67-76, resumed with the outcome o of the awaited original_list_tools:
\* the objects as the wrapper leaves them, the result it returns or the failure
\* it ends with
patched_list_tools_resume(o) ==
    IF o.error # "none" THEN o                       \* line 67: the failure propagates
    ELSE IF ~o.results[o.ret].has_tools THEN o       \* line 70 is false: line 76
    ELSE LET p == PatchTools(o.heap, o.descs, o.results[o.ret].tools, 1)
         IN [o EXCEPT !.heap = p.heap,
                      !.error = IF p.raised THEN "AttributeError" ELSE "none"]

\* the binding k resumed with the outcome of the server's own operation
RECURSIVE list_tools_resume(_, _)
list_tools_resume(k, o) ==
    IF k = 0 THEN o ELSE patched_list_tools_resume(list_tools_resume(k - 1, o))

\* a variant that calls the original without the arguments
patched_list_tools_no_args(a) == <<"()">>

\* line 67: the calls of original_list_tools the wrapper makes when called
\* with arguments a, each given by its arguments
patched_list_tools_enter(a) == <<a>>

\* the binding k called with arguments a: the calls the server's own operation
\* receives
RECURSIVE list_tools_enter(_, _)
RECURSIVE EnterEach(_, _)
EnterEach(k, as) ==
    IF as = <<>> THEN <<>> ELSE list_tools_enter(k, Head(as)) \o EnterEach(k, Tail(as))
list_tools_enter(k, a) ==
    IF k = 0 THEN <<a>> ELSE EnterEach(k - 1, patched_list_tools_enter(a))

CallArgs == {"()", "(cursor)"}

(***************************************************************************)
(* The tool-listing service: its schemas, descriptors and results.         *)
(* Descriptors and schema nodes are shared between results.                *)
(***************************************************************************)
ServiceHeap ==
    << [Obj EXCEPT !.properties = Map(<<"a", "b">>, <<2, 3>>)],
       Str,
       [Obj EXCEPT !.properties = Map(<<"c">>, <<4>>), !.additionalProperties = Dict(5)],
       [EmptyDict EXCEPT !.type = "number"],
       [Obj EXCEPT !.additionalProperties = True],
       EmptyDict,
       [[EmptyDict EXCEPT !.type = "array"] EXCEPT !.items = List(<<8>>)],
       Obj,
       [EmptyDict EXCEPT !.anyOf = List(<<10, 2>>)],
       [Obj EXCEPT !.items = Dict(8)] >>

Desc(named, schema) == [has_name |-> named, inputSchema |-> schema]

ServiceDescs ==
    << Desc(TRUE, Dict(1)),     \* 1: the nested object schema
       Desc(TRUE, Dict(6)),     \* 2: an empty inputSchema
       Desc(TRUE, Absent),      \* 3: no inputSchema attribute
       Desc(FALSE, Dict(3)),    \* 4: a schema, and no name attribute
       Desc(TRUE, Dict(5)),     \* 5: the schema node 3 holds as additionalProperties
       Desc(FALSE, Prim),       \* 6: inputSchema None, and no name attribute
       Desc(TRUE, Dict(7)),     \* 7: tuple-form items
       Desc(TRUE, Dict(9)) >>   \* 8: alternatives, nested two levels

Result(has, ts) == [has_tools |-> has, tools |-> ts]

ServiceResults ==
    << Result(TRUE, <<1, 2, 3>>),
       Result(TRUE, <<8, 1, 6>>),
       Result(TRUE, <<5, 4, 7>>),
       Result(FALSE, <<>>) >>

IdleCall ==
    [pc |-> "idle", depth |-> 0, args |-> "", orig_args |-> <<>>, orig_result |-> 0,
     result |-> 0, error |-> "none", heapAt |-> <<>>, heapRet |-> <<>>]

(***************************************************************************)
(* The function applied to a drawn schema, and again to its result          *)
(***************************************************************************)
\* Schemas larger than the drawn ones: the examples of the documentation and
\* schemas whose nodes are shared.

\* {type: object, properties: {a: {type: string},
\*                              b: {type: object, properties: {c: {type: number}}}}}
ExNested ==
    << [Obj EXCEPT !.properties = Map(<<"a", "b">>, <<2, 3>>)],
       Str,
       [Obj EXCEPT !.properties = Map(<<"c">>, <<4>>)],
       [EmptyDict EXCEPT !.type = "number"] >>

\* {anyOf: [{type: object}, {type: string}]}
ExAnyOf == << [EmptyDict EXCEPT !.anyOf = List(<<2, 3>>)], Obj, Str >>

\* two object nodes whose additionalProperties is the same object schema
ExSharedAdditional ==
    << [EmptyDict EXCEPT !.oneOf = List(<<2, 3>>)],
       [Obj EXCEPT !.additionalProperties = Dict(4)],
       [Obj EXCEPT !.additionalProperties = Dict(4), !.properties = Map(<<"a">>, <<5>>)],
       [Obj EXCEPT !.additionalProperties = True],
       [Obj EXCEPT !.additionalProperties = Dict(6), !.anyOf = List(<<6>>)],
       Obj >>

\* an object schema that is the additionalProperties of an object node and
\* also an alternative of its parent
ExSharedAlternative ==
    << [EmptyDict EXCEPT !.allOf = List(<<2, 3>>)],
       [Obj EXCEPT !.additionalProperties = Dict(3)],
       [Obj EXCEPT !.items = Dict(4)],
       [Str EXCEPT !.additionalProperties = Dict(5)],
       Obj >>

\* tuple validation: items is a list of schemas
ExTuple ==
    << [[EmptyDict EXCEPT !.type = "array"] EXCEPT !.items = List(<<2, 3, 0>>)],
       [Obj EXCEPT !.properties = Map(<<"a">>, <<3>>)],
       Obj >>

\* keys holding values of the wrong shape
ExMalformed ==
    << [Obj EXCEPT !.anyOf = Dict(2), !.properties = List(<<2>>), !.items = Prim,
                   !.allOf = List(<<0, 3>>)],
       Obj,
       [EmptyDict EXCEPT !.properties = Map(<<"a", "b">>, <<0, 4>>), !.oneOf = Prim],
       [Obj EXCEPT !.additionalProperties = False] >>

Examples == {ExNested, ExAnyOf, ExSharedAdditional, ExSharedAlternative, ExTuple, ExMalformed}

\* the values the function is called on: a schema of the heap, or a value
\* that is no dict
Args(h) == {Dict(n) : n \in {m \in 1..Len(h) : m <= 2 \/ h \in Examples}}
           \cup {List(<<1>>), Prim}

\* The schemas drawn as inputs, built node by node and key by key: h holds the
\* finished nodes, t and l the type and the entries chosen so far for the next
\* one, n the number of nodes, b the size left and refd the nodes referenced.
RECURSIVE DrawSchema(_, _, _, _, _, _)
DrawSchema(h, t, l, n, b, refd) ==
    IF Len(l) < Len(LinkKeys)
    THEN \E v \in {Absent} \cup SlotVals(LinkKeys[Len(l) + 1], (Len(h) + 2)..n, b) :
            DrawSchema(h, t, Append(l, v), n, b - Cost(v), refd \cup ValRefs(v))
    ELSE LET h2 == Append(h, MkNode(t, l))
         IN IF Len(h2) = n
            THEN heap = h2
            ELSE /\ (Len(h2) + 1) \in refd
                 /\ \E t2 \in Types : DrawSchema(h2, t2, <<>>, n, b, refd)

InitPatch ==
    /\ \/ \E n \in 1..(MaxSize + 1), t \in Types :
              DrawSchema(<<>>, t, <<>>, n, MaxSize, {})
       \/ heap \in Examples
    /\ arg = Absent
    /\ ret = Absent
    /\ calls = 0
    /\ heap0 = heap
    /\ heap1 = heap
    /\ server = [kind |-> "plain", list_tools |-> 0]
    /\ descs = <<>>
    /\ results = <<>>
    /\ installs = <<>>
    /\ call = <<>>

FirstCall ==
    /\ calls = 0
    /\ \E v \in Args(heap) :
        LET r == patch_schema_for_openai(heap, v)
        IN /\ heap' = r.heap
           /\ heap1' = r.heap
           /\ arg' = v
           /\ ret' = r.ret
    /\ calls' = 1
    /\ UNCHANGED <<heap0, serverVars>>

SecondCall ==
    /\ calls = 1
    /\ LET r == patch_schema_for_openai(heap, ret)
       IN /\ heap' = r.heap
          /\ ret' = r.ret
    /\ calls' = 2
    /\ UNCHANGED <<arg, heap0, heap1, serverVars>>

NextPatch == FirstCall \/ SecondCall

SpecPatch == InitPatch /\ [][NextPatch]_vars

(***************************************************************************)
(* The server patched, and its list_tools invoked by concurrent callers    *)
(***************************************************************************)
Init ==
    /\ heap = ServiceHeap
    /\ descs = ServiceDescs
    /\ results = ServiceResults
    /\ server \in {[kind |-> k, list_tools |-> 0] : k \in ServerKinds}
    /\ installs = <<>>
    /\ call = [c \in 1..NumCallers |-> IdleCall]
    /\ arg = Absent
    /\ ret = Absent
    /\ calls = 0
    /\ heap0 = <<>>
    /\ heap1 = <<>>

\* one call of patch_mcp_server_for_openai(server)
Install ==
    /\ Len(installs) < MaxInstalls
    /\ LET r == patch_mcp_server_for_openai(server)
       IN /\ server' = r.server
          /\ installs' = Append(installs, [ret |-> r.ret, raised |-> r.raised,
                                            rebound |-> r.server # server])
    /\ UNCHANGED <<heap, descs, results, call, patchVars>>

\* caller c invokes server.list_tools(a): the wrappers run up to their await,
\* and the server's own operation starts.  Callers are interchangeable, so
\* they are numbered in the order of their invocations.
CallStart(c, a) ==
    /\ call[c].pc = "idle"
    /\ IF c = 1 THEN TRUE ELSE call[c - 1].pc # "idle"
    /\ server.kind \in {"plain", "set_raises"}
    /\ call' = [call EXCEPT ![c] = [@ EXCEPT !.pc = "awaiting",
                                             !.depth = server.list_tools,
                                             !.args = a,
                                             !.orig_args = list_tools_enter(server.list_tools, a)]]
    /\ UNCHANGED <<heap, descs, results, server, installs, patchVars>>

\* the server's own operation of caller c ends with outcome o, and the wrappers
\* around it resume one after the other without suspending
Complete(c, o0) ==
    LET o == list_tools_resume(call[c].depth, o0)
    IN /\ heap' = o.heap
       /\ descs' = o.descs
       /\ results' = o.results
       /\ call' = [call EXCEPT ![c] =
                     [@ EXCEPT !.pc = IF o.error = "none" THEN "returned" ELSE "raised",
                               !.orig_result = o0.ret,
                               !.result = IF o.error = "none" THEN o.ret ELSE 0,
                               !.error = o.error,
                               !.heapAt = heap,
                               !.heapRet = o.heap]]
       /\ UNCHANGED <<server, installs, patchVars>>

OriginalReturns(c, r) ==
    /\ call[c].pc = "awaiting"
    /\ Complete(c, [heap |-> heap, descs |-> descs, results |-> results,
                    ret |-> r, error |-> "none"])

OriginalRaises(c) ==
    /\ call[c].pc = "awaiting"
    /\ Complete(c, [heap |-> heap, descs |-> descs, results |-> results,
                    ret |-> 0, error |-> "original_failure"])

Next ==
    \/ Install
    \/ \E c \in 1..NumCallers, a \in CallArgs : CallStart(c, a)
    \/ \E c \in 1..NumCallers, r \in 1..Len(results) : OriginalReturns(c, r)
    \/ \E c \in 1..NumCallers : OriginalRaises(c)

Spec == Init /\ [][Next]_vars

(***************************************************************************)
(* Properties of patch_schema_for_openai                                   *)
(***************************************************************************)
SeqRefs(v) == IF v.kind \in {"list", "map"}
              THEN {v.elems[i] : i \in 1..Len(v.elems)} \ {0}
              ELSE {}

\* The nodes one step below node n: the values of its properties, its items
\* when that is a single schema, the elements of its anyOf, oneOf and allOf,
\* and its schema-valued additionalProperties when n is not object-typed.
Children(h, n) ==
    (IF h[n].properties.kind = "map" THEN SeqRefs(h[n].properties) ELSE {})
    \cup (IF h[n].items.kind = "dict" THEN {h[n].items.ref} ELSE {})
    \cup (IF h[n].anyOf.kind = "list" THEN SeqRefs(h[n].anyOf) ELSE {})
    \cup (IF h[n].oneOf.kind = "list" THEN SeqRefs(h[n].oneOf) ELSE {})
    \cup (IF h[n].allOf.kind = "list" THEN SeqRefs(h[n].allOf) ELSE {})
    \cup (IF h[n].additionalProperties.kind = "dict" /\ h[n].type # "object"
          THEN {h[n].additionalProperties.ref} ELSE {})

RECURSIVE Closure(_, _)
Closure(h, S) ==
    LET S2 == S \cup UNION {Children(h, n) : n \in S}
    IN IF S2 = S THEN S ELSE Closure(h, S2)

\* node n and every node nested in it through a chain of such steps
Nested(h, n) == Closure(h, {n})

\* C1: after patch_schema_for_openai(N), every object-typed node that is N or
\* is nested in N through properties values, items, anyOf/oneOf/allOf elements
\* or the schema-valued additionalProperties of a node that is not object-typed
\* has additionalProperties equal to false, whatever it held before.
C1_ObjectNodesClosed ==
    (calls >= 1 /\ arg.kind = "dict") =>
        \A m \in Nested(heap0, arg.ref) :
            heap0[m].type = "object" => heap1[m].additionalProperties = False

\* an object node holding true, reached below the root through the
\* additionalProperties of a node that is not object-typed, now holds false
C1_Witness ==
    /\ calls = 1
    /\ arg.kind = "dict"
    /\ \E p \in Nested(heap0, arg.ref), m \in Nested(heap0, arg.ref) :
        /\ m # arg.ref
        /\ heap0[p].type # "object"
        /\ heap0[p].additionalProperties = Dict(m)
        /\ heap0[m].type = "object"
        /\ heap0[m].additionalProperties = True
        /\ heap1[m].additionalProperties = False

\* C2: when items holds a list of schemas, every element of the list that is
\* object-typed ends with additionalProperties equal to false.
C2_TupleItemsNormalized ==
    (calls >= 1 /\ arg.kind = "dict") =>
        \A n \in Nested(heap0, arg.ref) :
            heap0[n].items.kind = "list" =>
                \A e \in SeqRefs(heap0[n].items) :
                    heap0[e].type = "object" => heap1[e].additionalProperties = False

\* C3: a second application to the result of the first changes nothing.
C3_Idempotent ==
    calls = 2 => (heap = heap1 /\ ret = arg)

\* the first application changed the schema, and the second has been made
C3_Witness ==
    /\ calls = 2
    /\ arg.kind = "dict"
    /\ heap1 # heap0

\* C4: the call returns the value it was given and changes nothing but the
\* additionalProperties entry of object-typed nodes, which becomes false; a
\* value that is no dict is returned with nothing changed.
C4_Frame ==
    calls >= 1 =>
        /\ ret = arg
        /\ Len(heap1) = Len(heap0)
        /\ \A n \in 1..Len(heap0) :
            /\ [heap1[n] EXCEPT !.additionalProperties = heap0[n].additionalProperties]
                    = heap0[n]
            /\ heap0[n].type # "object" => heap1[n] = heap0[n]
            /\ heap1[n] # heap0[n] => heap1[n].additionalProperties = False
        /\ arg.kind # "dict" => heap1 = heap0

\* the call changed an object node and visited a node that is not object-typed
\* and holds additionalProperties true, which it left alone
C4_Witness ==
    /\ calls = 1
    /\ arg.kind = "dict"
    /\ heap1 # heap0
    /\ \E n \in Nested(heap0, arg.ref) :
        /\ heap0[n].type # "object"
        /\ heap0[n].additionalProperties = True
        /\ heap1[n] = heap0[n]

\* node x is referenced by something else than the additionalProperties of n
OtherwiseReferenced(h, n, x) ==
    \E p \in 1..Len(h) :
        \/ x \in SeqRefs(h[p].properties) \cup SeqRefs(h[p].anyOf) \cup SeqRefs(h[p].oneOf)
                  \cup SeqRefs(h[p].allOf) \cup SeqRefs(h[p].items)
        \/ h[p].items = Dict(x)
        \/ p # n /\ h[p].additionalProperties = Dict(x)

\* the visited object nodes n holding an object schema x as additionalProperties,
\* x being referenced from elsewhere too
DiscardedSchemas ==
    {nx \in (1..Len(heap0)) \X (1..Len(heap0)) :
        /\ arg.kind = "dict"
        /\ nx[1] \in Nested(heap0, arg.ref)
        /\ heap0[nx[1]].type = "object"
        /\ heap0[nx[1]].additionalProperties = Dict(nx[2])
        /\ heap0[nx[2]].type = "object"
        /\ OtherwiseReferenced(heap0, nx[1], nx[2])}

\* C9 as stated: the schema X held as additionalProperties by an object node
\* is visited before the entry is overwritten, so that after the call X's own
\* additionalProperties is false, and so is the node's.  (Stated for schemas
\* without tuple-form items, which the traversal does not enter.)
C9_DiscardedSchemaVisited ==
    (calls >= 1 /\ \A p \in 1..Len(heap0) : heap0[p].items.kind # "list") =>
        \A nx \in DiscardedSchemas :
            /\ heap1[nx[2]].additionalProperties = False
            /\ heap1[nx[1]].additionalProperties = False

\* C9 amended: the entry of the node is overwritten with false without X being
\* visited through it; X's own additionalProperties is false after the call
\* when X is also nested in the patched schema through a chain the traversal
\* follows, and X is left as it was otherwise.
C9_DiscardedSchema ==
    calls >= 1 =>
        \A nx \in DiscardedSchemas :
            /\ heap1[nx[1]].additionalProperties = False
            /\ nx[2] \in Nested(heap0, arg.ref) => heap1[nx[2]].additionalProperties = False
            /\ nx[2] \notin Nested(heap0, arg.ref) => heap1[nx[2]] = heap0[nx[2]]

\* one call meets both cases: a discarded schema that is also nested and is
\* normalized, and one that is not and keeps its additionalProperties
C9_Witness ==
    /\ calls = 1
    /\ \E nx \in DiscardedSchemas :
        /\ nx[2] \in Nested(heap0, arg.ref)
        /\ heap0[nx[2]].additionalProperties # False
        /\ heap1[nx[2]].additionalProperties = False
    /\ \E nx \in DiscardedSchemas :
        /\ nx[2] \notin Nested(heap0, arg.ref)
        /\ heap1[nx[2]].additionalProperties = True


(***************************************************************************)
(* Properties of patch_mcp_server_for_openai and of the wrapper            *)
(***************************************************************************)
Callers == 1..NumCallers

\* the calls that went through at least one wrapper and have ended
Ended(c) == call[c].depth >= 1 /\ call[c].pc \in {"returned", "raised"}
Returned(c) == call[c].depth >= 1 /\ call[c].pc = "returned"

\* the descriptors of result r, in order
ToolsOf(r) == IF results[r].has_tools THEN results[r].tools ELSE <<>>

\* the inputSchema is present and not empty
HasSchema(h, t) == descs[t].inputSchema.kind # "absent" /\ Truthy(h, descs[t].inputSchema)

\* C5: patch_mcp_server_for_openai returns true exactly when it rebound
\* list_tools; on a server without list_tools, or when a step raises, it
\* returns false, raises nothing and leaves the server as it was.
C5_InstallReturn ==
    \A i \in 1..Len(installs) :
        /\ ~installs[i].raised
        /\ installs[i].ret <=> installs[i].rebound
        /\ server.kind # "plain" =>
                (~installs[i].ret /\ ~installs[i].rebound /\ server.list_tools = 0)

\* the assignment to list_tools raised: the call returned false
C5_Witness ==
    /\ server.kind = "set_raises"
    /\ Len(installs) >= 1
    /\ ~installs[1].ret

\* C6: a call through the patched server returns the result object the
\* original produced, holding the same descriptors in the same order; a
\* descriptor with a present, non-empty inputSchema still refers to the same
\* schema object, over which the rewriter has run (every object node the
\* traversal reaches holds false); a descriptor whose inputSchema is absent or
\* empty is as the original produced it.
C6_ResultPreserved ==
    \A c \in Callers :
        Returned(c) =>
            /\ call[c].result = call[c].orig_result
            /\ results = ServiceResults
            /\ descs = ServiceDescs
            /\ Len(call[c].heapRet) = Len(call[c].heapAt)
            /\ \A i \in 1..Len(ToolsOf(call[c].result)) :
                LET t == ToolsOf(call[c].result)[i]
                    sch == descs[t].inputSchema
                IN IF HasSchema(call[c].heapAt, t)
                   THEN sch.kind = "dict" =>
                            \A m \in Nested(call[c].heapRet, sch.ref) :
                                call[c].heapRet[m].type = "object" =>
                                    call[c].heapRet[m].additionalProperties = False
                   ELSE sch.kind = "dict" =>
                            call[c].heapRet[sch.ref] = call[c].heapAt[sch.ref]

\* a call returned the result holding a schema it rewrote, an empty schema
\* and a descriptor without inputSchema
C6_Witness ==
    \E c \in Callers :
        /\ Returned(c)
        /\ call[c].orig_result = 1
        /\ call[c].heapRet # call[c].heapAt

AllNamed(r) == \A i \in 1..Len(ToolsOf(r)) : descs[ToolsOf(r)[i]].has_name

\* C7: a wrapped call invokes the original once, with the arguments it
\* received; when the original raises, the call ends with that failure, no
\* schema is modified and the server stays patched; when the original returns
\* a result whose descriptors all carry a name, the call returns.
C7_FailureSemantics ==
    \A c \in Callers :
        /\ call[c].pc # "idle" => call[c].orig_args = <<call[c].args>>
        /\ server.list_tools >= call[c].depth
        /\ Ended(c) =>
            /\ call[c].orig_result = 0 =>
                    /\ call[c].pc = "raised"
                    /\ call[c].error = "original_failure"
                    /\ call[c].heapRet = call[c].heapAt
            /\ (call[c].orig_result # 0 /\ AllNamed(call[c].orig_result)) =>
                    (call[c].pc = "returned" /\ call[c].error = "none")

\* one wrapped call ended with the failure of the original, another, called
\* with an argument, returned a rewritten result
C7_Witness ==
    \E c \in Callers, d \in Callers :
        /\ Ended(c)
        /\ call[c].error = "original_failure"
        /\ Returned(d)
        /\ call[d].args = "(cursor)"
        /\ AllNamed(call[d].orig_result)
        /\ call[d].heapRet # call[d].heapAt

\* C8: a second installation on the same server returns true like the first;
\* a call through both wrappers runs the original once and leaves the schemas
\* as a call through one wrapper would.
C8_DoubleInstall ==
    /\ server.kind = "plain" => \A i \in 1..Len(installs) : installs[i].ret
    /\ \A c \in Callers :
        (call[c].pc = "returned" /\ call[c].depth >= 2) =>
            /\ Len(call[c].orig_args) = 1
            /\ call[c].heapRet =
                    patched_list_tools_resume(
                        [heap |-> call[c].heapAt, descs |-> descs, results |-> results,
                         ret |-> call[c].orig_result, error |-> "none"]).heap

\* a call through two wrappers returned a result it rewrote
C8_Witness ==
    /\ Len(installs) >= 2
    /\ \E c \in Callers :
        /\ call[c].pc = "returned"
        /\ call[c].depth = 2
        /\ call[c].heapRet # call[c].heapAt

\* C10: whatever the interleaving of the invocations, in every result
\* delivered through the patched server each present, non-empty inputSchema is
\* a fixed point of patch_schema_for_openai when the call returns.
C10_DeliveredNormalized ==
    \A c \in Callers :
        Returned(c) =>
            \A i \in 1..Len(ToolsOf(call[c].result)) :
                LET t == ToolsOf(call[c].result)[i]
                IN HasSchema(call[c].heapRet, t) =>
                       patch_schema_for_openai(call[c].heapRet, descs[t].inputSchema).heap
                           = call[c].heapRet

\* a call returned a result it rewrote while another call, which shares a
\* descriptor with it, was suspended in the original and returned later
C10_Witness ==
    \E c \in Callers, d \in Callers :
        /\ c # d
        /\ Returned(c)
        /\ call[c].orig_result = 1
        /\ call[c].heapRet # call[c].heapAt
        /\ call[d].depth >= 1
        /\ call[d].pc = "awaiting"

=============================================================================
